---------------------------- MODULE Spec2Model ----------------------------
(***************************************************************************)
(* Model of the scoring and evaluation engine: the rank filter and the     *)
(* per-query metrics of performance.py, the batch accumulators (MAP, MRR,  *)
(* R-Prec), the TF-IDF engine of tf_idf.py and the BM25 engine of bm25.py. *)
(*                                                                         *)
(* A Python dict is a sequence of <<key, value>> pairs with distinct keys, *)
(* in insertion order (the order dict iteration and the stable sort see).  *)
(* A real number is an exact fraction <<numerator, denominator>> in lowest *)
(* terms; <<0, 0>> is the outcome of a division by zero.                   *)
(***************************************************************************)
EXTENDS Integers, Sequences, FiniteSets

VARIABLES
    pc,               \* "init", or the name of the operation that has returned
    predicted,        \* the score map handed to the filter / metric
    top_k,            \* top_k argument
    threshold,        \* threshold argument
    actual_doc_ids,   \* list(actual['docid'])
    actual_relevance, \* list(actual['rel'])
    ret,              \* the value the operation returned
    precision_scores, \* AveragePrecision.precision_scores: dict query -> score
    ranks,            \* ReciprocalRank.ranks: list
    r_prec_scores,    \* Precision.scores: list
    queries,          \* the batch of queries of the last calculate_* call
    predicted_scores, \* predicted_scores: query -> score map, for some queries
    calls,            \* calculate_* calls made so far
    contributed,      \* history: per metric, the query ids that were given a score
    documents,        \* the corpus handed to TFIDF(documents)
    idf_vector,       \* TFIDF.idf_vector
    term_doc_matrix,  \* TFIDF.term_doc_matrix
    query             \* the query string of the last create_query_vector call

Inputs == <<predicted, top_k, threshold, actual_doc_ids, actual_relevance>>

Accumulators == <<precision_scores, ranks, r_prec_scores>>

BatchVars == <<precision_scores, ranks, r_prec_scores, queries, predicted_scores, calls,
              contributed>>

TfidfVars == <<documents, idf_vector, term_doc_matrix, query>>

vars == <<pc, Inputs, ret, BatchVars, TfidfVars>>

---------------------------------------------------------------------------
(* Bounds of the model *)

\* number of document identifiers
MaxDocs == 3
\* scores handed to the rank filter range over 0..MaxScore
MaxScore == 2
\* top_k ranges over -1..MaxTopK
MaxTopK == 3
\* threshold ranges over 0..MaxThreshold
MaxThreshold == 1
\* number of query identifiers
MaxQueries == 2
\* longest batch of queries handed to one calculate_* call
MaxBatch == 2
\* calculate_* calls in one run
MaxCalls == 1
\* number of documents of a TF-IDF corpus
MaxCorpusDocs == 2
\* highest count of a term in a document
MaxCount == 2
\* longest query string, in characters
MaxQueryLen == 3

Docs == 1..MaxDocs

\* relevance labels: 0 non-relevant, 1 relevant, 2 strongly relevant
Labels == {0, 1, 2}

\* scores of the metric scenarios, in tenths (0.9, 0.5, 0.1 and a score of 0)
MetricScores == {0, 1, 5, 9}
MetricTopKs == {-1, 2}

---------------------------------------------------------------------------
(* dicts *)

Keys(d) == {d[i][1] : i \in DOMAIN d}

Get(d, k) == d[CHOOSE i \in DOMAIN d : d[i][1] = k][2]

\* dict.update({k: v})
Update(d, k, v) ==
    IF k \in Keys(d)
    THEN [i \in DOMAIN d |-> IF d[i][1] = k THEN <<k, v>> ELSE d[i]]
    ELSE Append(d, <<k, v>>)

\* every dict of n entries over the keys K with values in V, in every insertion order
RECURSIVE DictsOfLen(_, _, _)
DictsOfLen(K, V, n) ==
    IF n = 0 THEN {<<>>}
    ELSE UNION {{Append(d, <<k, v>>) : k \in K \ Keys(d), v \in V} :
                d \in DictsOfLen(K, V, n - 1)}

Dicts(K, V) == UNION {DictsOfLen(K, V, n) : n \in 0..Cardinality(K)}

---------------------------------------------------------------------------
(* fractions *)

RECURSIVE GCD(_, _)
GCD(a, b) == IF b = 0 THEN a ELSE GCD(b, a % b)

Frac(n, d) == IF d = 0 THEN <<0, 0>> ELSE LET g == GCD(n, d) IN
              IF g = 0 THEN <<0, 1>> ELSE <<n \div g, d \div g>>

FracAdd(a, b) == Frac(a[1] * b[2] + b[1] * a[2], a[2] * b[2])

\* a / n for an integer n; n = 0 is a division by zero
FracDiv(a, n) == Frac(a[1], a[2] * n)

Zero == <<0, 1>>
One == <<1, 1>>
DivByZero == <<0, 0>>

---------------------------------------------------------------------------
(* Performance: the rank filter *)

RECURSIVE threshold_loop(_, _, _, _)
threshold_loop(scores, thr, i, filtered) ==
    IF i > Len(scores) THEN filtered
    ELSE threshold_loop(scores, thr, i + 1,
                        IF scores[i][2] > thr
                        THEN Update(filtered, scores[i][1], scores[i][2])
                        ELSE filtered)

filter_relevance_by_threshold(scores, thr) == threshold_loop(scores, thr, 1, <<>>)

\* sorted(scores, key=scores.get, reverse=True): the keys by descending score,
\* equal scores in the order of the dict (the sort is stable, also reversed)
RECURSIVE sorted_items(_)
sorted_items(scores) ==
    IF scores = <<>> THEN <<>>
    ELSE LET n == Len(scores)
             rest == sorted_items(SubSeq(scores, 1, n - 1))
             e == scores[n]
             pos == Cardinality({i \in DOMAIN rest : rest[i][2] >= e[2]})
         IN SubSeq(rest, 1, pos) \o <<e>> \o SubSeq(rest, pos + 1, Len(rest))

sorted_reverse(scores) == [i \in DOMAIN scores |-> sorted_items(scores)[i][1]]

RECURSIVE top_k_loop_m(_, _, _, _, _, _)
top_k_loop_m(scores, ws, k, i, index, filtered) ==
    IF i > Len(ws) THEN filtered
    ELSE IF index <= k
         THEN top_k_loop_m(scores, ws, k, i + 1, index + 1,
                           Update(filtered, ws[i], Get(scores, ws[i])))
         ELSE filtered

\* a plausible slip: the loop test index <= top_k keeps one entry too many
filter_relevance_by_top_k_m(scores, k) ==
    top_k_loop_m(scores, sorted_reverse(scores), k, 1, 0, <<>>)

RECURSIVE top_k_loop(_, _, _, _, _, _)
top_k_loop(scores, ws, k, i, index, filtered) ==
    IF i > Len(ws) THEN filtered
    ELSE IF index < k
         THEN top_k_loop(scores, ws, k, i + 1, index + 1,
                         Update(filtered, ws[i], Get(scores, ws[i])))
         ELSE filtered

filter_relevance_by_top_k(scores, k) ==
    top_k_loop(scores, sorted_reverse(scores), k, 1, 0, <<>>)

\* a plausible slip: top-k applied to the threshold-filtered map
filter_ranked_list_m(scores, k, thr) ==
    LET total_retrieved == filter_relevance_by_threshold(scores, thr)
    IN IF k > 0 THEN filter_relevance_by_top_k(total_retrieved, k)
       ELSE total_retrieved

filter_ranked_list(scores, k, thr) ==
    LET total_retrieved == filter_relevance_by_threshold(scores, thr)
    IN IF k > 0 THEN filter_relevance_by_top_k(scores, k)
       ELSE total_retrieved

---------------------------------------------------------------------------
(* The rank filter applied to drawn inputs *)

\* documents is None
NoneValue == [none |-> TRUE, value |-> <<>>]

\* no TFIDF engine is in use
NoTfidf ==
    /\ documents = NoneValue
    /\ idf_vector = <<>>
    /\ term_doc_matrix = <<>>
    /\ query = <<>>

\* no query has been given a score
NoneContributed == [map |-> {}, mrr |-> {}, r_prec |-> {}]

\* no metric object is in use
NoBatch ==
    /\ precision_scores = <<>>
    /\ ranks = <<>>
    /\ r_prec_scores = <<>>
    /\ queries = <<>>
    /\ predicted_scores = <<>>
    /\ calls = 0
    /\ contributed = NoneContributed

InitFilter ==
    /\ pc = "init"
    /\ predicted \in Dicts(Docs, 0..MaxScore)
    /\ top_k \in -1..MaxTopK
    /\ threshold \in 0..MaxThreshold
    /\ actual_doc_ids = <<>>
    /\ actual_relevance = <<>>
    /\ ret = <<>>
    /\ NoBatch
    /\ NoTfidf

FilterRelevanceByThreshold ==
    /\ pc = "init"
    /\ ret' = filter_relevance_by_threshold(predicted, threshold)
    /\ pc' = "filter_relevance_by_threshold"
    /\ UNCHANGED <<Inputs, BatchVars, TfidfVars>>

FilterRelevanceByTopK ==
    /\ pc = "init"
    /\ ret' = filter_relevance_by_top_k(predicted, top_k)
    /\ pc' = "filter_relevance_by_top_k"
    /\ UNCHANGED <<Inputs, BatchVars, TfidfVars>>

FilterRankedList ==
    /\ pc = "init"
    /\ ret' = filter_ranked_list(predicted, top_k, threshold)
    /\ pc' = "filter_ranked_list"
    /\ UNCHANGED <<Inputs, BatchVars, TfidfVars>>

NextFilter ==
    \/ FilterRelevanceByThreshold
    \/ FilterRelevanceByTopK
    \/ FilterRankedList

SpecFilter == InitFilter /\ [][NextFilter]_vars

---------------------------------------------------------------------------
(* The per-query metrics *)

\* doc in actual_doc_ids: list.index(doc) raises ValueError otherwise
Has(list, x) == \E i \in DOMAIN list : list[i] = x

\* list.index(x): the first position holding x
Index(list, x) == CHOOSE i \in DOMAIN list :
                      list[i] = x /\ \A j \in DOMAIN list : list[j] = x => i <= j

\* actual_relevance[actual_doc_ids.index(docs)] == 1, False on ValueError
is_hit(ids, rel, doc) == Has(ids, doc) /\ rel[Index(ids, doc)] = 1

RECURSIVE FracSum(_)
FracSum(arr) == IF arr = <<>> THEN Zero
                ELSE FracAdd(arr[1], FracSum(Tail(arr)))

\* np.sum(actual_relevance): the labels added up
RECURSIVE np_sum(_)
np_sum(list) == IF list = <<>> THEN 0 ELSE list[1] + np_sum(Tail(list))

RECURSIVE ap_loop(_, _, _, _, _, _)
ap_loop(ws, ids, rel, i, count, precision_arr) ==
    IF i > Len(ws) THEN precision_arr
    ELSE IF is_hit(ids, rel, ws[i])
         THEN ap_loop(ws, ids, rel, i + 1, count + 1,
                      Append(precision_arr, Frac(count + 1, i)))
         ELSE ap_loop(ws, ids, rel, i + 1, count, precision_arr)

avg_precision_score(pred, ids, rel, thr, k) ==
    LET total_retrieved == filter_ranked_list(pred, k, thr)
        precision_arr == ap_loop(sorted_reverse(total_retrieved), ids, rel, 1, 0, <<>>)
    IN IF Len(precision_arr) > 0
       THEN FracDiv(FracSum(precision_arr), Len(precision_arr))
       ELSE Zero

RECURSIVE rank_loop(_, _, _, _)
rank_loop(ws, ids, rel, i) ==
    IF i > Len(ws) THEN Zero
    ELSE IF is_hit(ids, rel, ws[i]) THEN Frac(1, i)
         ELSE rank_loop(ws, ids, rel, i + 1)

rank(pred, ids, rel, thr, k) ==
    LET total_retrieved == filter_ranked_list(pred, k, thr)
    IN rank_loop(sorted_reverse(total_retrieved), ids, rel, 1)

RECURSIVE r_prec_loop(_, _, _, _, _)
r_prec_loop(ws, ids, rel, i, counter) ==
    IF i > Len(ws) THEN counter
    ELSE r_prec_loop(ws, ids, rel, i + 1,
                     IF is_hit(ids, rel, ws[i]) THEN counter + 1 ELSE counter)

r_prec(pred, ids, rel, thr, k) ==
    LET total_retrieved == filter_ranked_list(pred, k, thr)
        counter == r_prec_loop(sorted_reverse(total_retrieved), ids, rel, 1, 0)
        num_relevant == np_sum(rel)
    IN IF num_relevant > 0 THEN Frac(counter, num_relevant) ELSE Zero

\* the ground truth of one query: document ids, each once, and their labels
RECURSIVE IdLists(_)
IdLists(n) == IF n = 0 THEN {<<>>}
              ELSE IdLists(n - 1) \cup {Append(l, n) : l \in IdLists(n - 1)}

InitMetric ==
    /\ pc = "init"
    /\ predicted \in Dicts(Docs, MetricScores)
    /\ top_k \in MetricTopKs
    /\ threshold \in 0..MaxThreshold
    /\ \E ids \in IdLists(MaxDocs) : \E rel \in [DOMAIN ids -> Labels] :
           actual_doc_ids = ids /\ actual_relevance = rel
    /\ ret = <<>>
    /\ NoBatch
    /\ NoTfidf

AvgPrecisionScore ==
    /\ pc = "init"
    /\ ret' = avg_precision_score(predicted, actual_doc_ids, actual_relevance, threshold, top_k)
    /\ pc' = "avg_precision_score"
    /\ UNCHANGED <<Inputs, BatchVars, TfidfVars>>

Rank ==
    /\ pc = "init"
    /\ ret' = rank(predicted, actual_doc_ids, actual_relevance, threshold, top_k)
    /\ pc' = "rank"
    /\ UNCHANGED <<Inputs, BatchVars, TfidfVars>>

RPrec ==
    /\ pc = "init"
    /\ ret' = r_prec(predicted, actual_doc_ids, actual_relevance, threshold, top_k)
    /\ pc' = "r_prec"
    /\ UNCHANGED <<Inputs, BatchVars, TfidfVars>>

NextMetric ==
    \/ AvgPrecisionScore
    \/ Rank
    \/ RPrec

SpecMetric == InitMetric /\ [][NextMetric]_vars

---------------------------------------------------------------------------
(* The batch evaluation: the accumulators of MAP, MRR and R-Prec *)

Queries == 1..MaxQueries

\* every batch of at most MaxBatch queries; a query may occur more than once
Batches == UNION {[1..n -> Queries] : n \in 0..MaxBatch}

\* the score maps a query may be given: none retrieved, or d1 ahead of d2
ScoreMaps == {<<>>, << <<1, 2>>, <<2, 1>> >>}
BatchTopKs == {-1, 1}

\* Utils.get_doc_and_relevance_by_query(q, true_labels): the docid and rel
\* columns of the query's judgments. The ground truth used here labels d1
\* relevant for one query in three, d2 for the next, and is empty for the third.
get_doc_and_relevance_by_query(q) ==
    IF q % 3 = 1 THEN << <<1, 2>>, <<1, 0>> >>
    ELSE IF q % 3 = 2 THEN << <<1, 2>>, <<0, 1>> >>
    ELSE << <<>>, <<>> >>

\* the values of a dict, in its order
Values(d) == [i \in DOMAIN d |-> d[i][2]]

mean_avg_precision(ps) ==
    LET len_prec == Len(ps)
    IN IF len_prec > 0 THEN FracDiv(FracSum(Values(ps)), len_prec) ELSE Zero

\* a plausible slip: the empty case guarded as mean_avg_precision guards it
mean_reciprocal_rank_m(rks) ==
    IF Len(rks) > 0 THEN FracDiv(FracSum(rks), Len(rks)) ELSE Zero

\* np.sum(self.ranks)/num_queries: 0.0/0 when no rank was added
mean_reciprocal_rank(rks) == FracDiv(FracSum(rks), Len(rks))

mean_r_prec(scs) == FracDiv(FracSum(scs), Len(scs))

RECURSIVE map_loop(_, _, _, _, _, _)
map_loop(qs, pred, k, thr, i, ps) ==
    IF i > Len(qs) THEN ps
    ELSE LET q == qs[i]
             y_true == get_doc_and_relevance_by_query(q)
         IN IF q \in DOMAIN pred
            THEN map_loop(qs, pred, k, thr, i + 1,
                          Update(ps, q, avg_precision_score(pred[q], y_true[1], y_true[2], thr, k)))
            ELSE map_loop(qs, pred, k, thr, i + 1, ps)

RECURSIVE mrr_loop_m(_, _, _, _, _, _)
\* a plausible slip: a query without predictions is given the rank 0
mrr_loop_m(qs, pred, k, thr, i, rks) ==
    IF i > Len(qs) THEN rks
    ELSE LET q == qs[i]
             y_true == get_doc_and_relevance_by_query(q)
         IN IF q \in DOMAIN pred
            THEN mrr_loop_m(qs, pred, k, thr, i + 1,
                            Append(rks, rank(pred[q], y_true[1], y_true[2], thr, k)))
            ELSE mrr_loop_m(qs, pred, k, thr, i + 1, Append(rks, Zero))

RECURSIVE mrr_loop(_, _, _, _, _, _)
mrr_loop(qs, pred, k, thr, i, rks) ==
    IF i > Len(qs) THEN rks
    ELSE LET q == qs[i]
             y_true == get_doc_and_relevance_by_query(q)
         IN IF q \in DOMAIN pred
            THEN mrr_loop(qs, pred, k, thr, i + 1,
                          Append(rks, rank(pred[q], y_true[1], y_true[2], thr, k)))
            ELSE mrr_loop(qs, pred, k, thr, i + 1, rks)

RECURSIVE r_prec_batch_loop(_, _, _, _, _, _)
r_prec_batch_loop(qs, pred, k, thr, i, scs) ==
    IF i > Len(qs) THEN scs
    ELSE LET q == qs[i]
             y_true == get_doc_and_relevance_by_query(q)
         IN IF q \in DOMAIN pred
            THEN r_prec_batch_loop(qs, pred, k, thr, i + 1,
                                   Append(scs, r_prec(pred[q], y_true[1], y_true[2], thr, k)))
            ELSE r_prec_batch_loop(qs, pred, k, thr, i + 1, scs)

\* the query ids of a batch that have an entry in pred
Scored(qs, pred) == {qs[i] : i \in DOMAIN qs} \cap DOMAIN pred

\* A direct call of a mean reads an accumulator and changes none, so a run
\* takes it last: a calculate_* call follows the start or another calculate_*.
Calculating == pc \in {"init", "calculate_map", "calculate_mrr", "calculate_r_prec"}

InitBatch ==
    /\ pc = "init"
    /\ predicted = <<>>
    /\ actual_doc_ids = <<>>
    /\ actual_relevance = <<>>
    /\ top_k \in BatchTopKs
    /\ threshold = 0
    /\ ret = <<>>
    /\ precision_scores = <<>>
    /\ ranks = <<>>
    /\ r_prec_scores = <<>>
    /\ queries = <<>>
    /\ predicted_scores \in UNION {[Q -> ScoreMaps] : Q \in SUBSET Queries}
    /\ calls = 0
    /\ contributed = NoneContributed
    /\ NoTfidf

CalculateMap ==
    \E qs \in Batches :
        /\ Calculating
        /\ calls < MaxCalls
        /\ precision_scores' = map_loop(qs, predicted_scores, top_k, threshold, 1, precision_scores)
        /\ ret' = mean_avg_precision(precision_scores')
        /\ queries' = qs
        /\ calls' = calls + 1
        /\ pc' = "calculate_map"
        /\ contributed' = [contributed EXCEPT
               !.map = @ \cup Scored(qs, predicted_scores)]
        /\ UNCHANGED <<Inputs, ranks, r_prec_scores, predicted_scores, TfidfVars>>

CalculateMrr ==
    \E qs \in Batches :
        /\ Calculating
        /\ calls < MaxCalls
        /\ ranks' = mrr_loop(qs, predicted_scores, top_k, threshold, 1, ranks)
        /\ ret' = mean_reciprocal_rank(ranks')
        /\ queries' = qs
        /\ calls' = calls + 1
        /\ pc' = "calculate_mrr"
        /\ contributed' = [contributed EXCEPT
               !.mrr = @ \cup Scored(qs, predicted_scores)]
        /\ UNCHANGED <<Inputs, precision_scores, r_prec_scores, predicted_scores, TfidfVars>>

CalculateRPrec ==
    \E qs \in Batches :
        /\ Calculating
        /\ calls < MaxCalls
        /\ r_prec_scores' = r_prec_batch_loop(qs, predicted_scores, top_k, threshold, 1, r_prec_scores)
        /\ ret' = mean_r_prec(r_prec_scores')
        /\ queries' = qs
        /\ calls' = calls + 1
        /\ pc' = "calculate_r_prec"
        /\ contributed' = [contributed EXCEPT
               !.r_prec = @ \cup Scored(qs, predicted_scores)]
        /\ UNCHANGED <<Inputs, precision_scores, ranks, predicted_scores, TfidfVars>>

MeanAvgPrecision ==
    /\ ret' = mean_avg_precision(precision_scores)
    /\ pc' = "mean_avg_precision"
    /\ UNCHANGED <<Inputs, BatchVars, TfidfVars>>

MeanReciprocalRank ==
    /\ ret' = mean_reciprocal_rank(ranks)
    /\ pc' = "mean_reciprocal_rank"
    /\ UNCHANGED <<Inputs, BatchVars, TfidfVars>>

MeanRPrec ==
    /\ ret' = mean_r_prec(r_prec_scores)
    /\ pc' = "mean_r_prec"
    /\ UNCHANGED <<Inputs, BatchVars, TfidfVars>>

NextBatch ==
    \/ CalculateMap
    \/ CalculateMrr
    \/ CalculateRPrec
    \/ MeanAvgPrecision
    \/ MeanReciprocalRank
    \/ MeanRPrec

SpecBatch == InitBatch /\ [][NextBatch]_vars

---------------------------------------------------------------------------
(* The TF-IDF engine *)
(* A term is the sequence of its characters. Where the order of a dict has   *)
(* no effect (the corpus, the idf vector, the matrices) the dict is a        *)
(* function. A logarithm is kept as the term it is computed from.            *)

CorpusDocs == 1..MaxCorpusDocs
Terms == {<<"a">>, <<"b">>}
Chars == {"a", "b", "x", " "}

\* the term counts of one document: at least one term, every count >= 1
TermCounts == UNION {[T -> 1..MaxCount] : T \in SUBSET Terms \ {{}}}

\* every corpus, the empty one included
Corpora == UNION {[D -> TermCounts] : D \in SUBSET CorpusDocs}

Some(c) == [none |-> FALSE, value |-> c]

QueryStrings == UNION {[1..n -> Chars] : n \in 0..MaxQueryLen}

\* every order in which the elements of S may be iterated
Orders(S) == {f \in [1..Cardinality(S) -> S] :
                 \A i, j \in DOMAIN f : i # j => f[i] # f[j]}

\* math.log(x/y, 10)
Log10(x, y) == <<"log10", x, y>>

\* the product a * b
Times(a, b) == <<"times", a, b>>

\* the quotient (1 + math.log(c, 10)) / (1 + math.log(m, 10))
TfQuotient(c, m) == <<"tf", c, m>>

get_max_freq_term(matrix, doc_id) ==
    LET vs == {matrix[doc_id][t] : t \in DOMAIN matrix[doc_id]} \cup {0}
    IN CHOOSE m \in vs : \A v \in vs : v <= m

create_idf_matrix(matrix) ==
    LET num_docs == Cardinality(DOMAIN matrix)
        vocabulary == UNION {DOMAIN matrix[doc] : doc \in DOMAIN matrix}
        df(term) == Cardinality({doc \in DOMAIN matrix : term \in DOMAIN matrix[doc]})
    IN [term \in vocabulary |-> Log10(num_docs, df(term))]

\* Utils.add_ele_to_matrix adds a document's row with its first term, so a
\* document without terms has no row
create_tf_matrix(matrix) ==
    [k \in {d \in DOMAIN matrix : DOMAIN matrix[d] # {}} |->
        [word \in DOMAIN matrix[k] |->
            TfQuotient(matrix[k][word], get_max_freq_term(matrix, k))]]

create_tf_idf_matrix(matrix, idf) ==
    LET tf_matrix == create_tf_matrix(matrix)
    IN [k \in DOMAIN tf_matrix |->
           [word \in DOMAIN tf_matrix[k] |-> Times(tf_matrix[k][word], idf[word])]]

\* query.split(): the maximal runs of non-blank characters
RECURSIVE split_loop(_, _, _, _)
split_loop(q, i, word, tokens) ==
    LET flushed == IF word = <<>> THEN tokens ELSE Append(tokens, word)
    IN IF i > Len(q) THEN flushed
       ELSE IF q[i] = " " THEN split_loop(q, i + 1, <<>>, flushed)
       ELSE split_loop(q, i + 1, Append(word, q[i]), tokens)

split(q) == split_loop(q, 1, <<>>, <<>>)

Returned(v) == [error |-> "none", value |-> v]
Raised(e) == [error |-> e, value |-> <<>>]

\* for k, v in word_dict.items(): the iterator raises RuntimeError on its
\* next step once word_dict.pop(k) has changed the size of the dict
RECURSIVE query_vector_loop(_, _, _, _, _)
query_vector_loop(order, i, word_dict, idf, size_changed) ==
    IF size_changed THEN Raised("RuntimeError")
    ELSE IF i > Len(order) THEN Returned(word_dict)
    ELSE LET k == order[i]
             v == word_dict[k]
         IN IF k \in DOMAIN idf
            THEN query_vector_loop(order, i + 1,
                                   [word_dict EXCEPT ![k] = Times(idf[k], v)], idf, FALSE)
            ELSE query_vector_loop(order, i + 1,
                                   [t \in DOMAIN word_dict \ {k} |-> word_dict[t]], idf, TRUE)

\* order: the iteration order of the dict built from the set of tokens
create_query_vector(idf, q, order) ==
    LET tokens == split(q)
        word_dict == [t \in {tokens[i] : i \in DOMAIN tokens} |->
                         Cardinality({i \in DOMAIN tokens : tokens[i] = t})]
    IN query_vector_loop(order, 1, word_dict, idf, FALSE)

InitTfidf ==
    /\ pc = "init"
    /\ predicted = <<>>
    /\ actual_doc_ids = <<>>
    /\ actual_relevance = <<>>
    /\ top_k = -1
    /\ threshold = 0
    /\ ret = Returned(<<>>)
    /\ NoBatch
    /\ documents \in {NoneValue} \cup {Some(c) : c \in Corpora}
    /\ idf_vector = <<>>
    /\ term_doc_matrix = <<>>
    /\ query = <<>>

\* TFIDF(documents)
TfidfInit ==
    /\ pc = "init"
    /\ IF documents.none
       THEN /\ ret' = Raised("Exception")
            /\ pc' = "init_failed"
            /\ UNCHANGED <<idf_vector, term_doc_matrix>>
       ELSE /\ idf_vector' = create_idf_matrix(documents.value)
            /\ term_doc_matrix' = create_tf_idf_matrix(documents.value, idf_vector')
            /\ ret' = Returned(<<>>)
            /\ pc' = "constructed"
    /\ UNCHANGED <<Inputs, BatchVars, documents, query>>

CreateQueryVector ==
    \E q \in QueryStrings :
        \E order \in Orders({split(q)[i] : i \in DOMAIN split(q)}) :
            /\ pc \in {"constructed", "create_query_vector"}
            /\ ret' = create_query_vector(idf_vector, q, order)
            /\ query' = q
            /\ pc' = "create_query_vector"
            /\ UNCHANGED <<Inputs, BatchVars, documents, idf_vector, term_doc_matrix>>

NextTfidf ==
    \/ TfidfInit
    \/ CreateQueryVector

SpecTfidf == InitTfidf /\ [][NextTfidf]_vars

---------------------------------------------------------------------------
(* Claims about the rank filter *)

Min(a, b) == IF a < b THEN a ELSE b

AboveThreshold(scores, thr) ==
    LET Test(e) == e[2] > thr IN SelectSeq(scores, Test)

C2_TopK ==
    (pc = "filter_relevance_by_top_k" /\ top_k >= 0) =>
        /\ Len(ret) = Min(top_k, Len(predicted))
        /\ Cardinality(Keys(ret)) = Len(ret)
        /\ \A i \in DOMAIN ret : \E j \in DOMAIN predicted : ret[i] = predicted[j]
        /\ \A i \in DOMAIN ret : \A j \in DOMAIN predicted :
               predicted[j][1] \notin Keys(ret) => ret[i][2] >= predicted[j][2]

\* some entries are returned and some are cut off
C2_Witness ==
    /\ pc = "filter_relevance_by_top_k"
    /\ top_k > 0
    /\ top_k < Len(predicted)
    /\ \E j \in DOMAIN predicted : predicted[j][1] \notin Keys(ret)
    /\ \E i, j \in DOMAIN predicted : predicted[i][2] # predicted[j][2]

---------------------------------------------------------------------------
(* Claims about the per-query metrics *)

\* the documents the ground truth labels relevant (label > 0)
Relevant == {actual_doc_ids[i] : i \in {j \in DOMAIN actual_doc_ids : actual_relevance[j] > 0}}

\* the retrieved set of the metric call
Retrieved == filter_ranked_list(predicted, top_k, threshold)

C3_Input ==
    /\ predicted = << <<1, 9>>, <<2, 5>>, <<3, 1>> >>
    /\ actual_doc_ids = <<1, 2, 3>>
    /\ actual_relevance = <<1, 0, 1>>
    /\ threshold = 0
    /\ top_k = -1

(* C3: for ground truth [d1,d2,d3] with labels [1,0,1] and predicted scores   *)
(* {d1:0.9, d2:0.5, d3:0.1} under the default filtering, r_prec returns 0.5   *)
(* (avg_precision_score returns 5/6 and rank returns 1).                      *)
C3_Scenario ==
    C3_Input =>
        /\ pc = "r_prec" => ret = Frac(1, 2)
        /\ pc = "avg_precision_score" => ret = Frac(5, 6)
        /\ pc = "rank" => ret = One

(* C4: r_prec is (relevant documents in the retrieved set) / (relevant        *)
(* documents in the ground truth), 0 when the ground truth has none, and      *)
(* exactly 1 when every relevant ground-truth document is retrieved.          *)
C4_RPrec ==
    pc = "r_prec" =>
        /\ ret = IF Relevant = {} THEN Zero
                 ELSE Frac(Cardinality(Relevant \cap Keys(Retrieved)), Cardinality(Relevant))
        /\ (Relevant # {} /\ Relevant \subseteq Keys(Retrieved)) => ret = One

(* C5: rank is 1/n for the rank n of the first retrieved document, in         *)
(* descending score order, that the ground truth labels relevant, and 0 when  *)
(* no relevant document is retrieved.                                         *)
C5_ReciprocalRank ==
    pc = "rank" =>
        LET ws == sorted_reverse(Retrieved)
            hits == {i \in DOMAIN ws : ws[i] \in Relevant}
        IN ret = IF hits = {} THEN Zero
                 ELSE Frac(1, CHOOSE n \in hits : \A m \in hits : n <= m)

(* C6: avg_precision_score is exactly 1 for a perfect ranking: some relevant  *)
(* document is retrieved and every relevant retrieved document scores         *)
(* strictly higher than every other retrieved document.                       *)
C6_PerfectRanking ==
    pc = "avg_precision_score" =>
        LET tr == Retrieved
            perfect ==
                /\ \E i \in DOMAIN tr : tr[i][1] \in Relevant
                /\ \A i, j \in DOMAIN tr :
                       (tr[i][1] \in Relevant /\ tr[j][1] \notin Relevant)
                           => tr[i][2] > tr[j][2]
        IN perfect => ret = One

---------------------------------------------------------------------------
(* Claims about the batch evaluation *)

\* the queries of a batch that have an entry in predicted_scores, as they occur
Contributing(qs) ==
    LET Test(q) == q \in DOMAIN predicted_scores IN SelectSeq(qs, Test)

Range(seq) == {seq[i] : i \in DOMAIN seq}

Mean(seq) == FracDiv(FracSum(seq), Len(seq))

\* the per-query score a metric gives query q in this run
ScoreOf(metric, q) ==
    LET y_true == get_doc_and_relevance_by_query(q)
        y_pred == predicted_scores[q]
    IN CASE metric = "map" -> avg_precision_score(y_pred, y_true[1], y_true[2], threshold, top_k)
         [] metric = "mrr" -> rank(y_pred, y_true[1], y_true[2], threshold, top_k)
         [] OTHER -> r_prec(y_pred, y_true[1], y_true[2], threshold, top_k)

\* what a calculate_* call adds to a list accumulator
Appended(metric, old, new, qs) ==
    LET contrib == Contributing(qs)
    IN /\ Len(new) = Len(old) + Len(contrib)
       /\ SubSeq(new, 1, Len(old)) = old
       /\ \A i \in DOMAIN contrib :
              /\ new[Len(old) + i] = ScoreOf(metric, contrib[i])
              /\ predicted_scores[contrib[i]] = <<>> => new[Len(old) + i] = Zero

(* C7: in calculate_map, calculate_mrr and calculate_r_prec a query with no   *)
(* entry in predicted_scores adds nothing to the accumulator, a query whose   *)
(* score map is present but empty adds the score 0, and the value returned is *)
(* the arithmetic mean of the accumulated scores of the contributing queries. *)
C7_BatchMean ==
    [][calls' = calls + 1 =>
        LET contrib == Contributing(queries')
        IN /\ pc' = "calculate_mrr" =>
                /\ Appended("mrr", ranks, ranks', queries')
                /\ ranks' # <<>> => ret' = Mean(ranks')
           /\ pc' = "calculate_r_prec" =>
                /\ Appended("r_prec", r_prec_scores, r_prec_scores', queries')
                /\ r_prec_scores' # <<>> => ret' = Mean(r_prec_scores')
           /\ pc' = "calculate_map" =>
                /\ Keys(precision_scores') = Keys(precision_scores) \cup Range(contrib)
                /\ Len(precision_scores') = Cardinality(Keys(precision_scores'))
                /\ \A q \in Range(contrib) :
                       /\ Get(precision_scores', q) = ScoreOf("map", q)
                       /\ predicted_scores[q] = <<>> => Get(precision_scores', q) = Zero
                /\ \A q \in Keys(precision_scores) \ Range(contrib) :
                       Get(precision_scores', q) = Get(precision_scores, q)
                /\ precision_scores' # <<>> => ret' = Mean(Values(precision_scores'))
      ]_vars

\* a batch with a query without predictions and a query with an empty score
\* map: one score, 0, is accumulated and the mean is 0/1
C7_Witness ==
    /\ pc = "calculate_mrr"
    /\ \E i \in DOMAIN queries : queries[i] \notin DOMAIN predicted_scores
    /\ \E i \in DOMAIN queries :
           queries[i] \in DOMAIN predicted_scores /\ predicted_scores[queries[i]] = <<>>
    /\ ranks = <<Zero>>
    /\ ret = Zero

(* C8 as claimed: for each of the three metrics, the mean over an accumulator *)
(* that no query contributed to ends in a division by zero and never returns  *)
(* an ordinary number.                                                        *)
C8_AllUndefined ==
    /\ (pc \in {"calculate_map", "mean_avg_precision"} /\ precision_scores = <<>>)
           => ret = DivByZero
    /\ (pc \in {"calculate_mrr", "mean_reciprocal_rank"} /\ ranks = <<>>)
           => ret = DivByZero
    /\ (pc \in {"calculate_r_prec", "mean_r_prec"} /\ r_prec_scores = <<>>)
           => ret = DivByZero

(* C8, amended: over an accumulator that no query contributed to,             *)
(* mean_reciprocal_rank and mean_r_prec end in a division by zero and never   *)
(* return an ordinary number, and mean_avg_precision returns 0.               *)
C8_EmptyMean ==
    /\ (pc \in {"calculate_map", "mean_avg_precision"} /\ precision_scores = <<>>)
           => ret = Zero
    /\ (pc \in {"calculate_mrr", "mean_reciprocal_rank"} /\ ranks = <<>>)
           => ret = DivByZero
    /\ (pc \in {"calculate_r_prec", "mean_r_prec"} /\ r_prec_scores = <<>>)
           => ret = DivByZero

\* every query of a non-empty batch was skipped for missing predictions
C8_Witness ==
    /\ pc = "calculate_mrr"
    /\ queries # <<>>
    /\ ranks = <<>>
    /\ ret = DivByZero

---------------------------------------------------------------------------
(* Claims about the TF-IDF engine *)

(* C9: constructing a TFIDF engine fails both when the corpus is None and     *)
(* when it is empty; no engine with an empty idf vector and an empty tf-idf   *)
(* matrix is ever produced.                                                   *)
C9_CorpusMandatory ==
    /\ (pc # "init" /\ (documents.none \/ DOMAIN documents.value = {}))
           => (pc = "init_failed" /\ ret.error # "none")
    /\ pc \in {"constructed", "create_query_vector"}
           => ~(DOMAIN idf_vector = {} /\ DOMAIN term_doc_matrix = {})

(* C10: create_query_vector completes without error for every query, also    *)
(* one with terms outside the idf vocabulary, and returns the mapping from    *)
(* the distinct query terms of the vocabulary to idf(term) times the number   *)
(* of occurrences of the term in the query. (Stated for an engine built from  *)
(* a corpus with at least one document.)                                      *)
C10_QueryVector ==
    (pc = "create_query_vector" /\ DOMAIN documents.value # {}) =>
        LET tokens == split(query)
            known == {tokens[i] : i \in DOMAIN tokens} \cap DOMAIN idf_vector
        IN /\ ret.error = "none"
           /\ DOMAIN ret.value = known
           /\ \A t \in known :
                  ret.value[t] =
                      Times(idf_vector[t], Cardinality({i \in DOMAIN tokens : tokens[i] = t}))

---------------------------------------------------------------------------
(* The BM25 engine *)
(* The corpus is the function of the TF-IDF engine's corpora; k and b stay   *)
(* the engine's parameters and a term's score is kept as the values it is    *)
(* computed from.                                                            *)

\* the sum of f over its finite domain
RECURSIVE SumOver(_)
SumOver(f) ==
    IF DOMAIN f = {} THEN 0
    ELSE LET x == CHOOSE y \in DOMAIN f : TRUE
         IN f[x] + SumOver([y \in DOMAIN f \ {x} |-> f[y]])

\* num_items adds up len(v), the number of distinct terms of each document
get_average_doc_length(docs) ==
    LET num_docs == Cardinality(DOMAIN docs)
        num_items == SumOver([k \in DOMAIN docs |-> Cardinality(DOMAIN docs[k])])
    IN Frac(num_items, num_docs)

get_doc_length(docs, doc_id) == SumOver(docs[doc_id])

get_term_frequency_in_doc(docs, term, doc_id) ==
    IF term \in DOMAIN docs[doc_id] THEN docs[doc_id][term] ELSE 0

\* math.log1p(1 + (num_docs - df + 0.5)/(df + 0.5)), kept as num_docs and df
idf_weight_2(docs, term) ==
    LET df == Cardinality({k \in DOMAIN docs : get_term_frequency_in_doc(docs, term, k) > 0})
    IN <<"log1p", Cardinality(DOMAIN docs), df>>

\* doc_length/avg_doc_length, a division by zero for an average of 0
LengthRatio(doc_length, avg) ==
    IF avg[1] = 0 THEN DivByZero ELSE Frac(doc_length * avg[2], avg[1])

\* the score is the sum of the term scores idf * counter/denominator, kept as
\* the list of (idf, term_freq, doc_length/avg_doc_length), one per query term
relevance(docs, doc_id, q) ==
    LET terms == split(q)
        doc_length == get_doc_length(docs, doc_id)
        avg_doc_length == get_average_doc_length(docs)
    IN [i \in DOMAIN terms |->
           [idf |-> idf_weight_2(docs, terms[i]),
            term_freq |-> get_term_frequency_in_doc(docs, terms[i], doc_id),
            length_ratio |-> LengthRatio(doc_length, avg_doc_length)]]

InitBm25 ==
    /\ pc = "init"
    /\ predicted = <<>>
    /\ actual_doc_ids = <<>>
    /\ actual_relevance = <<>>
    /\ top_k = -1
    /\ threshold = 0
    /\ ret = <<>>
    /\ NoBatch
    /\ documents \in {Some(c) : c \in Corpora}
    /\ idf_vector = <<>>
    /\ term_doc_matrix = <<>>
    /\ query = <<>>

GetAverageDocLength ==
    /\ pc = "init"
    /\ ret' = get_average_doc_length(documents.value)
    /\ pc' = "get_average_doc_length"
    /\ UNCHANGED <<Inputs, BatchVars, TfidfVars>>

GetDocLength ==
    \E doc_id \in DOMAIN documents.value :
        /\ pc = "init"
        /\ ret' = <<doc_id, get_doc_length(documents.value, doc_id)>>
        /\ pc' = "get_doc_length"
        /\ UNCHANGED <<Inputs, BatchVars, TfidfVars>>

Relevance ==
    \E doc_id \in DOMAIN documents.value : \E q \in QueryStrings :
        /\ pc = "init"
        /\ ret' = <<doc_id, relevance(documents.value, doc_id, q)>>
        /\ query' = q
        /\ pc' = "relevance"
        /\ UNCHANGED <<Inputs, BatchVars, documents, idf_vector, term_doc_matrix>>

NextBm25 ==
    \/ GetAverageDocLength
    \/ GetDocLength
    \/ Relevance

SpecBm25 == InitBm25 /\ [][NextBm25]_vars

---------------------------------------------------------------------------
(* Claims about the BM25 engine *)

\* the mean of get_doc_length over the documents of the corpus
MeanDocLength ==
    Frac(SumOver([k \in DOMAIN documents.value |-> get_doc_length(documents.value, k)]),
         Cardinality(DOMAIN documents.value))

(* C11: for a non-empty corpus get_average_doc_length is the sum of all term  *)
(* counts over the number of documents, the mean of get_doc_length, and       *)
(* relevance divides a document's length by an average in that unit.          *)
C11_AverageDocLength ==
    DOMAIN documents.value # {} =>
        /\ pc = "get_average_doc_length" => ret = MeanDocLength
        /\ pc = "relevance" =>
               \A i \in DOMAIN ret[2] :
                   ret[2][i].length_ratio =
                       LengthRatio(get_doc_length(documents.value, ret[1]), MeanDocLength)

---------------------------------------------------------------------------
(* Claims about the accumulators *)

\* the MAP accumulator holds one score per query id that contributed
MapIsMapping ==
    /\ Keys(precision_scores) = contributed.map
    /\ Len(precision_scores) = Cardinality(contributed.map)
    /\ \A q \in contributed.map : Get(precision_scores, q) = ScoreOf("map", q)

(* C12: after any sequence of calculate_* calls every accumulator (MAP, MRR,  *)
(* R-Prec) holds exactly one per-query score for each distinct query id that  *)
(* contributed, so a query id occurring several times in the batches counts   *)
(* once in the denominator of the mean, for all three metrics alike.          *)
C12_AccumulatorMapping ==
    /\ MapIsMapping
    /\ Len(ranks) = Cardinality(contributed.mrr)
    /\ \A i \in DOMAIN ranks : \E q \in contributed.mrr : ranks[i] = ScoreOf("mrr", q)
    /\ Len(r_prec_scores) = Cardinality(contributed.r_prec)
    /\ \A i \in DOMAIN r_prec_scores :
           \E q \in contributed.r_prec : r_prec_scores[i] = ScoreOf("r_prec", q)

=============================================================================
